---- MODULE Spec2Model ----
(***************************************************************************)
(* Theme resolution of the-perfect-dark-mode.mdx (final result):           *)
(*   pages/_document.js : setInitialColorMode / getInitialColorMode, the   *)
(*                        blocking inline script and the order of <body>,  *)
(*   pages/index.js     : IndexPage, its state darkTheme, handleToggle and *)
(*                        its two effects.                                 *)
(* localStorage, the document element and the (prefers-color-scheme: dark) *)
(* media query are the environment the code reads and writes.              *)
(* Further sections: the static build of the blog pages (getStaticPaths,   *)
(* getStaticProps, getBlogPostsData), MDXLinkWrapper of components/mdx,    *)
(* and the useInterval hook of chameleon-text.mdx.                         *)
(***************************************************************************)
EXTENDS Integers, Sequences, FiniteSets, TLC

VARIABLES
    localStorage,      \* the origin's durable store: key -> string or Null
    systemSignal,      \* what mql.matches evaluates to: "true", "false", "undefined"
    pos,               \* the HTML parser's position in <body>
    painted,           \* <Main /> has been painted
    initialColorMode,  \* root.style "--initial-color-mode" ("" when not set)
    dataTheme,         \* the data-theme attribute of <html> (Null when absent)
    preference,        \* getInitialColorMode's local `preference`
    matches,           \* getInitialColorMode's `mql.matches` (Unqueried if not read)
    colorMode,         \* setInitialColorMode's local `colorMode`
    mounted,           \* IndexPage is mounted
    darkTheme,         \* IndexPage's state: "undefined", "true", "false"
    update,            \* a state update queued by setDarkTheme (None when none)
    effects,           \* the effects React still has to run after the last commit
    requested,         \* the value of the last toggle on this page load (None if none)
    chosen,            \* the value of the user's last toggle on any load (None if none)
    repeated,          \* the last toggle asked for the same value as the one before it
    snapshot,          \* <<localStorage, dataTheme, darkTheme>> when the last toggle began
    loadStore,         \* localStorage as it was when this page load began
    toggles,           \* number of toggles so far
    loads,             \* number of reloads so far
    storeState,        \* localStorage: "ok", "readonly" (setItem throws), "blocked" (any access throws)
    scriptError,       \* the blocking script ended in an uncaught exception
    pageError,         \* an effect threw and React unmounted the tree
    remounted,         \* IndexPage was mounted again since the last toggle or load
    dir,               \* the files of src/content/blog, in readdirSync order
    postsResult,       \* outcome of the last getBlogPostsData call
    pathsResult,       \* outcome of getStaticPaths
    propsResult,       \* outcome of the last getStaticProps call
    href,              \* props.href of the link MDXLinkWrapper is given, as characters
    link,              \* the props of the <StyledLink> MDXLinkWrapper returned
    hostMounted,       \* the component calling useInterval: "no", "yes", "gone"
    callback,          \* useInterval's `callback` argument at the last render
    delay,             \* useInterval's `delay` argument at the last render
    savedCallback,     \* savedCallback.current
    intervalId,        \* the id the timer effect's cleanup closes over (0: no cleanup)
    timers,            \* the window's live interval timers
    nextTimerId,       \* the id the next setInterval call returns
    renders,           \* number of renders of the host so far
    ticks,             \* number of timer ticks so far
    lastTick,          \* what the last tick invoked, and what was current then
    delayCommits       \* number of renders that committed a new non-null delay

vars == <<localStorage, systemSignal, pos, painted, initialColorMode, dataTheme,
          preference, matches, colorMode, mounted, darkTheme, update, effects,
          requested, chosen, repeated, snapshot, loadStore, toggles, loads,
          storeState, scriptError, pageError, remounted,
          dir, postsResult, pathsResult, propsResult,
          href, link,
          hostMounted, callback, delay, savedCallback, intervalId, timers,
          nextTimerId, renders, ticks, lastTick, delayCommits>>

blogVars == <<dir, postsResult, pathsResult, propsResult>>

mdxVars == <<href, link,
             hostMounted, callback, delay, savedCallback, intervalId, timers,
             nextTimerId, renders, ticks, lastTick, delayCommits>>

\* ---- bounds -------------------------------------------------------------
MaxToggles == 3
MaxLoads == 2

\* ---- values -------------------------------------------------------------
Null == "null"
None == "none"
Unset == "unset"
Unqueried == "unqueried"
Tokens == {"light", "dark"}
Keys == {"theme", "other"}
StoreValues == {Null, "light", "dark", "batman"}
SignalValues == {"true", "false", "undefined"}

\* ---- pages/_document.js -------------------------------------------------
getItem(storage, key) == storage[key]

setItem(storage, key, value) == [storage EXCEPT ![key] = value]

hasExplicitPreference(pref) == pref # Null

hasImplicitPreference(m) == m \in {"true", "false"}

getInitialColorMode_SystemFirst(storage, signal) ==
    LET pref == getItem(storage, "theme")
    IN  IF hasImplicitPreference(signal)
        THEN [preference |-> pref, matches |-> signal,
              value |-> IF signal = "true" THEN "dark" ELSE "light"]
        ELSE IF hasExplicitPreference(pref)
        THEN [preference |-> pref, matches |-> signal, value |-> pref]
        ELSE [preference |-> pref, matches |-> signal, value |-> "light"]

getInitialColorMode_Inverted(storage, signal) ==
    LET pref == getItem(storage, "theme")
    IN  IF hasExplicitPreference(pref)
        THEN [preference |-> pref, matches |-> Unqueried, value |-> pref]
        ELSE IF hasImplicitPreference(signal)
        THEN [preference |-> pref, matches |-> signal,
              value |-> IF signal = "true" THEN "light" ELSE "dark"]
        ELSE [preference |-> pref, matches |-> signal, value |-> "light"]

getInitialColorMode_DefaultDark(storage, signal) ==
    LET pref == getItem(storage, "theme")
    IN  IF hasExplicitPreference(pref)
        THEN [preference |-> pref, matches |-> Unqueried, value |-> pref]
        ELSE IF hasImplicitPreference(signal)
        THEN [preference |-> pref, matches |-> signal,
              value |-> IF signal = "true" THEN "dark" ELSE "light"]
        ELSE [preference |-> pref, matches |-> signal, value |-> "dark"]

\* The locals of getInitialColorMode and the value it returns.
getInitialColorMode(storage, signal) ==
    LET pref == getItem(storage, "theme")
    IN  IF hasExplicitPreference(pref)
        THEN [preference |-> pref, matches |-> Unqueried, value |-> pref]
        ELSE IF hasImplicitPreference(signal)
        THEN [preference |-> pref, matches |-> signal,
              value |-> IF signal = "true" THEN "dark" ELSE "light"]
        ELSE [preference |-> pref, matches |-> signal, value |-> "light"]

Body_MainFirst == <<"Main", "script", "NextScript">>

\* The children of <body> in MyDocument.render, in document order.
Body == <<"script", "Main", "NextScript">>

setInitialColorMode_AttributeAlways(storage, signal, attr) ==
    LET r == getInitialColorMode(storage, signal)
    IN  [preference |-> r.preference, matches |-> r.matches, colorMode |-> r.value,
         cssVar |-> r.value,
         attr |-> r.value]

\* setInitialColorMode: resolve, then write the CSS variable and the attribute.
setInitialColorMode(storage, signal, attr) ==
    LET r == getInitialColorMode(storage, signal)
    IN  [preference |-> r.preference, matches |-> r.matches, colorMode |-> r.value,
         cssVar |-> r.value,
         attr |-> IF r.value = "dark" THEN "dark" ELSE attr]

\* ---- pages/index.js -----------------------------------------------------
storeUserSetPreference(storage, pref) == setItem(storage, "theme", pref)

handleToggle_Flip(checked, current) == IF current = "true" THEN "false" ELSE "true"

\* handleToggle: the value handed to setDarkTheme is event.target.checked.
handleToggle(checked, current) == checked

\* setDarkTheme: React queues an update unless the value is the current state.
setDarkTheme(current, value) == IF value = current THEN None ELSE value

\* useEffect(..., []): the value handed to setDarkTheme on mount.
initialEffect(cssVar) == IF cssVar = "dark" THEN "true" ELSE "false"

themeEffect_KeepsAttribute(dt, storage, attr) ==
    IF dt = "undefined" THEN [storage |-> storage, attr |-> attr]
    ELSE IF dt = "true"
    THEN [storage |-> storeUserSetPreference(storage, "dark"), attr |-> "dark"]
    ELSE [storage |-> storeUserSetPreference(storage, "light"), attr |-> attr]

themeEffect_ClearsLight(dt, storage, attr) ==
    IF dt = "undefined" THEN [storage |-> storage, attr |-> attr]
    ELSE IF dt = "true"
    THEN [storage |-> storeUserSetPreference(storage, "dark"), attr |-> "dark"]
    ELSE [storage |-> setItem(storage, "theme", Null), attr |-> Null]

themeEffect_StoresBoolean(dt, storage, attr) ==
    IF dt = "undefined" THEN [storage |-> storage, attr |-> attr]
    ELSE IF dt = "true"
    THEN [storage |-> storeUserSetPreference(storage, dt), attr |-> "dark"]
    ELSE [storage |-> storeUserSetPreference(storage, dt), attr |-> Null]

\* useEffect(..., [darkTheme]): the attribute and the store after the effect.
themeEffect(dt, storage, attr) ==
    IF dt = "undefined" THEN [storage |-> storage, attr |-> attr]
    ELSE IF dt = "true"
    THEN [storage |-> storeUserSetPreference(storage, "dark"), attr |-> "dark"]
    ELSE [storage |-> storeUserSetPreference(storage, "light"), attr |-> Null]

effectsAfterRender_MountOnly(old, new) == <<>>

\* The effects React schedules after a commit in which darkTheme went from old to new.
effectsAfterRender(old, new) == IF old # new THEN <<"themeEffect">> ELSE <<>>

TokenOf(checked) == IF checked = "true" THEN "dark" ELSE "light"

AttrOf(token) == IF token = "dark" THEN "dark" ELSE Null

Idle == effects = <<>> /\ update = None

Quiescent == mounted /\ darkTheme # "undefined" /\ Idle

ScriptDone == colorMode # Unset

useStateInitial_False == "false"

\* useState(undefined): the state IndexPage mounts with.
useStateInitial == "undefined"

\* window.localStorage.getItem / window.matchMedia throwing inside
\* getInitialColorMode: nothing in the script catches it.
scriptThrows(state, storage, signal) ==
    \/ state = "blocked"
    \/ (~hasExplicitPreference(getItem(storage, "theme")) /\ signal = "throws")

\* localStorage.setItem throwing inside useEffect(..., [darkTheme]).
themeEffectThrows(dt, state) == dt # "undefined" /\ state # "ok"

\* The blocking script has been executed (to completion or not).
ScriptRan == \E i \in 1..(pos - 1) : Body[i] = "script"

\* The checkbox is in the rendered output: {darkTheme !== undefined && (...)}.
ToggleRendered == mounted /\ darkTheme # "undefined"

\* ---- utils/blog (getBlogPostsData) and pages/blog/[slug] ----------------
\* A file name is the sequence of its dot-separated parts, the extensions
\* with their dot: "a.mdx" is <<"a", ".mdx">>.  A file's meta block is the set
\* of its <<key, value>> pairs; a post is such a set too.
MaxFiles == 3

FileNames == {<<"a", ".mdx">>, <<"b", ".mdx">>, <<"a", ".md">>, <<"a", ".mdx", ".mdx">>}

Metas == {[has |-> FALSE, fields |-> {}],
          [has |-> TRUE, fields |-> {<<"title", <<"T">>>>}],
          [has |-> TRUE, fields |-> {<<"title", <<"T">>>>, <<"slug", <<"b">>>>}]}

Files == [name : FileNames, meta : Metas]

Directories ==
    UNION {{d \in [1..n -> Files] :
               \A i, j \in 1..n : i # j => d[i].name # d[j].name} : n \in 0..MaxFiles}

MinOf(S) == CHOOSE i \in S : \A j \in S : i <= j

\* file.endsWith(".mdx")
endsWithMdx(name) == Len(name) > 0 /\ name[Len(name)] = ".mdx"

\* file.replace(/\.mdx?$/, "")
stripExtension(name) ==
    IF Len(name) > 0 /\ name[Len(name)] \in {".mdx", ".md"}
    THEN SubSeq(name, 1, Len(name) - 1)
    ELSE name

makePost_MetaWins(meta, slug) ==
    IF \E p \in meta : p[1] = "slug" THEN meta ELSE meta \cup {<<"slug", slug>>}

\* { ...meta, slug }: the file-derived slug replaces a slug key of meta.
makePost(meta, slug) == {p \in meta : p[1] # "slug"} \cup {<<"slug", slug>>}

slugOf(post) == (CHOOSE p \in post : p[1] = "slug")[2]

\* getBlogPostsData: the list of posts, or the error thrown for the first
\* .mdx file without a meta block.
getBlogPostsData(d) ==
    LET files == SelectSeq(d, LAMBDA f : endsWithMdx(f.name))
        bad == {i \in 1..Len(files) : ~files[i].meta.has}
    IN  IF bad # {}
        THEN [threw |-> TRUE, file |-> files[MinOf(bad)].name, posts |-> <<>>]
        ELSE [threw |-> FALSE, file |-> <<>>,
              posts |-> [i \in 1..Len(files) |->
                            makePost(files[i].meta.fields, stripExtension(files[i].name))]]

\* getStaticPaths: a path is modelled by its params.slug.
getStaticPaths(d) ==
    LET r == getBlogPostsData(d)
    IN  IF r.threw
        THEN [threw |-> TRUE, paths |-> <<>>, fallback |-> FALSE]
        ELSE [threw |-> FALSE,
              paths |-> [i \in 1..Len(r.posts) |-> slugOf(r.posts[i])],
              fallback |-> FALSE]

findPost_First(posts, slug) == IF Len(posts) = 0 THEN 0 ELSE 1

\* postsData.find(postData => postData.slug === params.slug): the index of
\* the post found, 0 for undefined.
findPost(posts, slug) ==
    LET found == {i \in 1..Len(posts) : slugOf(posts[i]) = slug}
    IN  IF found = {} THEN 0 ELSE MinOf(found)

\* renderToStaticMarkup(<MDXContent />) of the imported file.
renderToStaticMarkup(name) == <<"markup">> \o name

\* getStaticProps for params = {slug}: the import throws when the file
\* content/blog/${post?.slug}.mdx does not exist.
getStaticProps(d, slug) ==
    LET r == getBlogPostsData(d)
        i == findPost(r.posts, slug)
        importName == (IF i = 0 THEN <<"undefined">> ELSE slugOf(r.posts[i])) \o <<".mdx">>
    IN  IF r.threw \/ ~(\E k \in 1..Len(d) : d[k].name = importName)
        THEN [threw |-> TRUE, hasPost |-> FALSE, post |-> {}, mdxString |-> <<>>]
        ELSE [threw |-> FALSE, hasPost |-> (i # 0),
              post |-> IF i = 0 THEN {} ELSE r.posts[i],
              mdxString |-> renderToStaticMarkup(importName)]

NotCalledPosts == [called |-> FALSE, threw |-> FALSE, file |-> <<>>, posts |-> <<>>]

NotCalledPaths == [called |-> FALSE, threw |-> FALSE, paths |-> <<>>, fallback |-> FALSE]

NotCalledProps == [called |-> FALSE, slug |-> <<>>, threw |-> FALSE, hasPost |-> FALSE,
                   post |-> {}, mdxString |-> <<>>]

\* No build is running: the state of the blog pages while the theme is modelled.
NoBuild ==
    /\ dir = <<>>
    /\ postsResult = NotCalledPosts
    /\ pathsResult = NotCalledPaths
    /\ propsResult = NotCalledProps

NotRendered == [rendered |-> FALSE, href |-> <<>>, target |-> Null, rel |-> Null]

NoTick == [invoked |-> "undefined", rendered |-> "undefined", captured |-> "undefined",
           timer |-> 0, host |-> "no"]

\* No link of an MDX page is being rendered.
NoLink ==
    /\ href = <<>>
    /\ link = NotRendered

\* useInterval's host component is not mounted and no timer exists.
NoInterval ==
    /\ hostMounted = "no"
    /\ callback = "undefined"
    /\ delay = "undefined"
    /\ savedCallback = "undefined"
    /\ intervalId = 0
    /\ timers = {}
    /\ nextTimerId = 1
    /\ renders = 0
    /\ ticks = 0
    /\ lastTick = NoTick
    /\ delayCommits = 0

NoMdx == NoLink /\ NoInterval

\* ---- initial state ------------------------------------------------------
\* A fresh document, before <body> is parsed.
FreshDocument ==
    /\ pos = 1
    /\ painted = FALSE
    /\ initialColorMode = ""
    /\ dataTheme = Null
    /\ preference = Unset
    /\ matches = Unset
    /\ colorMode = Unset
    /\ mounted = FALSE
    /\ darkTheme = useStateInitial
    /\ update = None
    /\ effects = <<>>
    /\ requested = None
    /\ chosen = None
    /\ repeated = FALSE
    /\ snapshot = <<localStorage, Null, "undefined">>
    /\ loadStore = localStorage
    /\ toggles = 0
    /\ loads = 0
    /\ scriptError = FALSE
    /\ pageError = FALSE
    /\ remounted = FALSE

Init ==
    /\ localStorage \in [Keys -> StoreValues]
    /\ systemSignal \in SignalValues
    /\ storeState = "ok"
    /\ FreshDocument
    /\ NoBuild
    /\ NoMdx

\* ---- the page load: the parser walks <body> in document order -----------
RunBlockingScript ==
    /\ pos <= Len(Body) /\ Body[pos] = "script"
    /\ IF scriptThrows(storeState, localStorage, systemSignal)
       THEN /\ scriptError' = TRUE
            /\ preference' = IF storeState = "blocked" THEN Unset
                             ELSE getItem(localStorage, "theme")
            /\ UNCHANGED <<matches, colorMode, initialColorMode, dataTheme>>
       ELSE LET r == setInitialColorMode(localStorage, systemSignal, dataTheme)
            IN  /\ preference' = r.preference
                /\ matches' = r.matches
                /\ colorMode' = r.colorMode
                /\ initialColorMode' = r.cssVar
                /\ dataTheme' = r.attr
                /\ UNCHANGED scriptError
    /\ pos' = pos + 1
    /\ UNCHANGED <<localStorage, systemSignal, painted, mounted, darkTheme, update,
                   effects, requested, chosen, repeated, snapshot, loadStore,
                   toggles, loads, storeState, pageError, remounted>>
    /\ UNCHANGED blogVars
    /\ UNCHANGED mdxVars

PaintMain ==
    /\ pos <= Len(Body) /\ Body[pos] = "Main"
    /\ painted' = TRUE
    /\ pos' = pos + 1
    /\ UNCHANGED <<localStorage, systemSignal, initialColorMode, dataTheme,
                   preference, matches, colorMode, mounted, darkTheme, update,
                   effects, requested, chosen, repeated, snapshot, loadStore,
                   toggles, loads, storeState, scriptError, pageError, remounted>>
    /\ UNCHANGED blogVars
    /\ UNCHANGED mdxVars

\* <NextScript />: React mounts IndexPage with useState(undefined) and
\* schedules both effects, in the order they are declared.
MountIndexPage ==
    /\ pos <= Len(Body) /\ Body[pos] = "NextScript"
    /\ mounted' = TRUE
    /\ darkTheme' = useStateInitial
    /\ update' = None
    /\ effects' = <<"initialEffect", "themeEffect">>
    /\ pos' = pos + 1
    /\ UNCHANGED <<localStorage, systemSignal, painted, initialColorMode, dataTheme,
                   preference, matches, colorMode, requested, chosen, repeated,
                   snapshot, loadStore, toggles, loads, storeState, scriptError,
                   pageError, remounted>>
    /\ UNCHANGED blogVars
    /\ UNCHANGED mdxVars

\* ---- IndexPage ----------------------------------------------------------
RunInitialEffect ==
    /\ effects # <<>> /\ Head(effects) = "initialEffect"
    /\ update' = setDarkTheme(darkTheme, initialEffect(initialColorMode))
    /\ effects' = Tail(effects)
    /\ UNCHANGED <<localStorage, systemSignal, pos, painted, initialColorMode,
                   dataTheme, preference, matches, colorMode, mounted, darkTheme,
                   requested, chosen, repeated, snapshot, loadStore, toggles, loads,
                   storeState, scriptError, pageError, remounted>>
    /\ UNCHANGED blogVars
    /\ UNCHANGED mdxVars

\* The attribute is written first; if setItem then throws, the uncaught error
\* makes React unmount the whole tree.
RunThemeEffect ==
    /\ effects # <<>> /\ Head(effects) = "themeEffect"
    /\ LET r == themeEffect(darkTheme, localStorage, dataTheme)
       IN  /\ dataTheme' = r.attr
           /\ IF themeEffectThrows(darkTheme, storeState)
              THEN /\ pageError' = TRUE
                   /\ mounted' = FALSE
                   /\ darkTheme' = "undefined"
                   /\ update' = None
                   /\ effects' = <<>>
                   /\ UNCHANGED localStorage
              ELSE /\ localStorage' = r.storage
                   /\ effects' = Tail(effects)
                   /\ UNCHANGED <<pageError, mounted, darkTheme, update>>
    /\ UNCHANGED <<systemSignal, pos, painted, initialColorMode, preference, matches,
                   colorMode, requested, chosen, repeated, snapshot, loadStore,
                   toggles, loads, storeState, scriptError, remounted>>
    /\ UNCHANGED blogVars
    /\ UNCHANGED mdxVars

\* The re-render a queued setDarkTheme causes, once the effects have run.
Rerender ==
    /\ effects = <<>> /\ update # None
    /\ darkTheme' = update
    /\ update' = None
    /\ effects' = effectsAfterRender(darkTheme, update)
    /\ UNCHANGED <<localStorage, systemSignal, pos, painted, initialColorMode,
                   dataTheme, preference, matches, colorMode, mounted, requested,
                   chosen, repeated, snapshot, loadStore, toggles, loads,
                   storeState, scriptError, pageError, remounted>>
    /\ UNCHANGED blogVars
    /\ UNCHANGED mdxVars

\* The user operates the checkbox, which is rendered only when darkTheme is defined.
HandleToggle(checked) ==
    /\ Quiescent
    /\ toggles < MaxToggles
    /\ update' = setDarkTheme(darkTheme, handleToggle(checked, darkTheme))
    /\ requested' = TokenOf(checked)
    /\ chosen' = TokenOf(checked)
    /\ repeated' = (requested = TokenOf(checked))
    /\ snapshot' = <<localStorage, dataTheme, darkTheme>>
    /\ toggles' = toggles + 1
    /\ remounted' = FALSE
    /\ UNCHANGED <<localStorage, systemSignal, pos, painted, initialColorMode,
                   dataTheme, preference, matches, colorMode, mounted, darkTheme,
                   effects, loadStore, loads, storeState, scriptError, pageError>>
    /\ UNCHANGED blogVars
    /\ UNCHANGED mdxVars

\* ---- environment --------------------------------------------------------
\* The user changes the operating system's colour scheme.
SystemSignalChange ==
    /\ systemSignal \in {"true", "false"}
    /\ systemSignal' = IF systemSignal = "true" THEN "false" ELSE "true"
    /\ UNCHANGED <<localStorage, pos, painted, initialColorMode, dataTheme,
                   preference, matches, colorMode, mounted, darkTheme, update,
                   effects, requested, chosen, repeated, snapshot, loadStore,
                   toggles, loads, storeState, scriptError, pageError, remounted>>
    /\ UNCHANGED blogVars
    /\ UNCHANGED mdxVars

\* A full reload: a fresh document, the store survives.
Reload ==
    /\ Idle
    /\ loads < MaxLoads
    /\ pos' = 1
    /\ painted' = FALSE
    /\ initialColorMode' = ""
    /\ dataTheme' = Null
    /\ preference' = Unset
    /\ matches' = Unset
    /\ colorMode' = Unset
    /\ mounted' = FALSE
    /\ darkTheme' = useStateInitial
    /\ requested' = None
    /\ repeated' = FALSE
    /\ snapshot' = <<localStorage, Null, "undefined">>
    /\ loadStore' = localStorage
    /\ loads' = loads + 1
    /\ scriptError' = FALSE
    /\ pageError' = FALSE
    /\ remounted' = FALSE
    /\ UNCHANGED <<localStorage, systemSignal, update, effects, chosen, toggles,
                   storeState>>
    /\ UNCHANGED blogVars
    /\ UNCHANGED mdxVars

Next ==
    \/ RunBlockingScript
    \/ PaintMain
    \/ MountIndexPage
    \/ RunInitialEffect
    \/ RunThemeEffect
    \/ Rerender
    \/ \E checked \in {"true", "false"} : HandleToggle(checked)
    \/ SystemSignalChange
    \/ Reload

Spec == Init /\ [][Next]_vars

\* ---- the same page, loaded with a store that is empty or holds a token ----
InitValidStore ==
    /\ localStorage \in [Keys -> StoreValues]
    /\ localStorage["theme"] \in {Null} \cup Tokens
    /\ systemSignal \in SignalValues
    /\ storeState = "ok"
    /\ FreshDocument
    /\ NoBuild
    /\ NoMdx

SpecValidStore == InitValidStore /\ [][Next]_vars

\* ---- the same page, with IndexPage unmounted and mounted again ------------
\* Client-side navigation away from the page: the document stays.
Unmount ==
    /\ Quiescent
    /\ mounted' = FALSE
    /\ darkTheme' = "undefined"
    /\ UNCHANGED <<localStorage, systemSignal, pos, painted, initialColorMode,
                   dataTheme, preference, matches, colorMode, update, effects,
                   requested, chosen, repeated, snapshot, loadStore, toggles,
                   loads, storeState, scriptError, pageError, remounted>>
    /\ UNCHANGED blogVars
    /\ UNCHANGED mdxVars

\* Navigation back: IndexPage mounts afresh in the same document, so the
\* blocking script does not run again.
Remount ==
    /\ ~mounted /\ pos > Len(Body) /\ ~pageError
    /\ mounted' = TRUE
    /\ darkTheme' = useStateInitial
    /\ update' = None
    /\ effects' = <<"initialEffect", "themeEffect">>
    /\ remounted' = TRUE
    /\ UNCHANGED <<localStorage, systemSignal, pos, painted, initialColorMode,
                   dataTheme, preference, matches, colorMode, requested, chosen,
                   repeated, snapshot, loadStore, toggles, loads, storeState,
                   scriptError, pageError>>
    /\ UNCHANGED blogVars
    /\ UNCHANGED mdxVars

NextRemount ==
    \/ Next
    \/ Unmount
    \/ Remount

SpecRemount == Init /\ [][NextRemount]_vars

\* ---- the localStorage-only IndexPage (no blocking script) ------------------
\* Its state isDarkTheme is held in darkTheme; it starts as useState(false).
getMediaQueryPreference(signal) ==
    IF hasImplicitPreference(signal)
    THEN (IF signal = "true" THEN "dark" ELSE "light")
    ELSE "undefined"

\* useEffect(..., []) of the localStorage-only page: the value it hands to
\* setIsDarkTheme.
loadEffect(storage, signal) ==
    LET userSetPreference == getItem(storage, "theme")
    IN  IF userSetPreference # Null
        THEN (IF userSetPreference = "dark" THEN "true" ELSE "false")
        ELSE (IF getMediaQueryPreference(signal) = "dark" THEN "true" ELSE "false")

\* useEffect(..., [isDarkTheme]) of the localStorage-only page: the store after it.
storeEffect(dt, storage) ==
    IF dt = "undefined" THEN storage
    ELSE IF dt = "true" THEN storeUserSetPreference(storage, "dark")
    ELSE storeUserSetPreference(storage, "light")

MountLocalPage ==
    /\ ~mounted
    /\ mounted' = TRUE
    /\ darkTheme' = "false"
    /\ update' = None
    /\ effects' = <<"loadEffect", "storeEffect">>
    /\ UNCHANGED <<localStorage, systemSignal, pos, painted, initialColorMode,
                   dataTheme, preference, matches, colorMode, requested, chosen,
                   repeated, snapshot, loadStore, toggles, loads, storeState,
                   scriptError, pageError, remounted>>
    /\ UNCHANGED blogVars
    /\ UNCHANGED mdxVars

RunLoadEffect ==
    /\ effects # <<>> /\ Head(effects) = "loadEffect"
    /\ update' = setDarkTheme(darkTheme, loadEffect(localStorage, systemSignal))
    /\ effects' = Tail(effects)
    /\ UNCHANGED <<localStorage, systemSignal, pos, painted, initialColorMode,
                   dataTheme, preference, matches, colorMode, mounted, darkTheme,
                   requested, chosen, repeated, snapshot, loadStore, toggles, loads,
                   storeState, scriptError, pageError, remounted>>
    /\ UNCHANGED blogVars
    /\ UNCHANGED mdxVars

RunStoreEffect ==
    /\ effects # <<>> /\ Head(effects) = "storeEffect"
    /\ localStorage' = storeEffect(darkTheme, localStorage)
    /\ effects' = Tail(effects)
    /\ UNCHANGED <<systemSignal, pos, painted, initialColorMode, dataTheme,
                   preference, matches, colorMode, mounted, darkTheme, update,
                   requested, chosen, repeated, snapshot, loadStore, toggles, loads,
                   storeState, scriptError, pageError, remounted>>
    /\ UNCHANGED blogVars
    /\ UNCHANGED mdxVars

RerenderLocal ==
    /\ effects = <<>> /\ update # None
    /\ darkTheme' = update
    /\ update' = None
    /\ effects' = IF darkTheme # update THEN <<"storeEffect">> ELSE <<>>
    /\ UNCHANGED <<localStorage, systemSignal, pos, painted, initialColorMode,
                   dataTheme, preference, matches, colorMode, mounted, requested,
                   chosen, repeated, snapshot, loadStore, toggles, loads,
                   storeState, scriptError, pageError, remounted>>
    /\ UNCHANGED blogVars
    /\ UNCHANGED mdxVars

\* The checkbox of this page is always rendered.
HandleToggleLocal(checked) ==
    /\ mounted /\ Idle
    /\ toggles < MaxToggles
    /\ update' = setDarkTheme(darkTheme, checked)
    /\ requested' = TokenOf(checked)
    /\ chosen' = TokenOf(checked)
    /\ toggles' = toggles + 1
    /\ UNCHANGED <<localStorage, systemSignal, pos, painted, initialColorMode,
                   dataTheme, preference, matches, colorMode, mounted, darkTheme,
                   effects, repeated, snapshot, loadStore, loads, storeState,
                   scriptError, pageError, remounted>>
    /\ UNCHANGED blogVars
    /\ UNCHANGED mdxVars

ReloadLocal ==
    /\ mounted /\ Idle
    /\ loads < MaxLoads
    /\ mounted' = FALSE
    /\ darkTheme' = "undefined"
    /\ requested' = None
    /\ loadStore' = localStorage
    /\ loads' = loads + 1
    /\ UNCHANGED <<localStorage, systemSignal, pos, painted, initialColorMode,
                   dataTheme, preference, matches, colorMode, update, effects,
                   chosen, repeated, snapshot, toggles, storeState, scriptError,
                   pageError, remounted>>
    /\ UNCHANGED blogVars
    /\ UNCHANGED mdxVars

NextLocal ==
    \/ MountLocalPage
    \/ RunLoadEffect
    \/ RunStoreEffect
    \/ RerenderLocal
    \/ \E checked \in {"true", "false"} : HandleToggleLocal(checked)
    \/ SystemSignalChange
    \/ ReloadLocal

SpecLocal == Init /\ [][NextLocal]_vars

\* ---- the same page with a store or a media query that can throw ----------
StoreStates == {"ok", "readonly", "blocked"}

InitFault ==
    /\ localStorage \in [Keys -> StoreValues]
    /\ systemSignal \in SignalValues \cup {"throws"}
    /\ storeState \in StoreStates
    /\ FreshDocument
    /\ NoBuild
    /\ NoMdx

\* The origin's quota runs out while the page is open: setItem throws from now on.
StoreFills ==
    /\ storeState = "ok"
    /\ storeState' = "readonly"
    /\ UNCHANGED <<localStorage, systemSignal, pos, painted, initialColorMode,
                   dataTheme, preference, matches, colorMode, mounted, darkTheme,
                   update, effects, requested, chosen, repeated, snapshot,
                   loadStore, toggles, loads, scriptError, pageError, remounted>>
    /\ UNCHANGED blogVars
    /\ UNCHANGED mdxVars

NextFault ==
    \/ Next
    \/ StoreFills

SpecFault == InitFault /\ [][NextFault]_vars

\* ---- the static build of the blog pages -----------------------------------
themeVars == <<localStorage, systemSignal, pos, painted, initialColorMode, dataTheme,
               preference, matches, colorMode, mounted, darkTheme, update, effects,
               requested, chosen, repeated, snapshot, loadStore, toggles, loads,
               storeState, scriptError, pageError, remounted>>

InitBuild ==
    /\ dir \in Directories
    /\ postsResult = NotCalledPosts
    /\ pathsResult = NotCalledPaths
    /\ propsResult = NotCalledProps
    /\ localStorage = [k \in Keys |-> Null]
    /\ systemSignal = "undefined"
    /\ storeState = "ok"
    /\ FreshDocument
    /\ NoMdx

CallGetBlogPostsData ==
    /\ ~postsResult.called
    /\ LET r == getBlogPostsData(dir)
       IN  postsResult' = [called |-> TRUE, threw |-> r.threw, file |-> r.file,
                           posts |-> r.posts]
    /\ UNCHANGED <<dir, pathsResult, propsResult>>
    /\ UNCHANGED themeVars
    /\ UNCHANGED mdxVars

CallGetStaticPaths ==
    /\ ~pathsResult.called
    /\ LET r == getStaticPaths(dir)
       IN  pathsResult' = [called |-> TRUE, threw |-> r.threw, paths |-> r.paths,
                           fallback |-> r.fallback]
    /\ UNCHANGED <<dir, postsResult, propsResult>>
    /\ UNCHANGED themeVars
    /\ UNCHANGED mdxVars

\* With fallback: false the framework calls getStaticProps only for the
\* paths getStaticPaths returned.
CallGetStaticProps(i) ==
    /\ pathsResult.called /\ ~pathsResult.threw
    /\ i \in 1..Len(pathsResult.paths)
    /\ LET r == getStaticProps(dir, pathsResult.paths[i])
       IN  propsResult' = [called |-> TRUE, slug |-> pathsResult.paths[i],
                           threw |-> r.threw, hasPost |-> r.hasPost, post |-> r.post,
                           mdxString |-> r.mdxString]
    /\ UNCHANGED <<dir, postsResult, pathsResult>>
    /\ UNCHANGED themeVars
    /\ UNCHANGED mdxVars

NextBuild ==
    \/ CallGetBlogPostsData
    \/ CallGetStaticPaths
    \/ \E i \in 1..MaxFiles : CallGetStaticProps(i)

SpecBuild == InitBuild /\ [][NextBuild]_vars

\* ---- components/mdx/index.tsx: MDXLinkWrapper ------------------------------
MaxHref == 3
HrefChars == {"/", "#", "h", "u", "."}
Hrefs == UNION {[1..n -> HrefChars] : n \in 0..MaxHref}

\* The theme and the build are idle while MDX components are modelled.
NoTheme ==
    /\ localStorage = [k \in Keys |-> Null]
    /\ systemSignal = "undefined"
    /\ storeState = "ok"
    /\ FreshDocument

\* props.href[0]: the first UTF-16 unit, or undefined for the empty string.
\* String.prototype.includes converts its argument with ToString, so
\* undefined is searched for as the text "undefined".
hrefIndex0 ==
    [h \in Hrefs |-> IF Len(h) = 0
                     THEN <<"u", "n", "d", "e", "f", "i", "n", "e", "d">>
                     ELSE <<h[1]>>]

\* String.prototype.includes: search occurs somewhere in str.
includes(str, search) ==
    \E i \in 0..(Len(str) - Len(search)) : SubSeq(str, i + 1, i + Len(search)) = search

MDXLinkWrapper_WholeHref(props) ==
    IF includes(<<"/", "#">>, props.href)
    THEN [rendered |-> TRUE, href |-> props.href, target |-> Null, rel |-> Null]
    ELSE [rendered |-> TRUE, href |-> props.href, target |-> "_blank",
          rel |-> "noopener noreferrer"]

\* props is { href, children } (PropsWithChildren<{ href: string }>); the
\* second branch writes target and rel after the spread of props.
MDXLinkWrapper(props) ==
    IF includes(<<"/", "#">>, hrefIndex0[props.href])
    THEN [rendered |-> TRUE, href |-> props.href, target |-> Null, rel |-> Null]
    ELSE [rendered |-> TRUE, href |-> props.href, target |-> "_blank",
          rel |-> "noopener noreferrer"]

InitLink ==
    /\ href \in Hrefs
    /\ link = NotRendered
    /\ NoInterval
    /\ NoTheme
    /\ NoBuild

RenderLink ==
    /\ ~link.rendered
    /\ link' = MDXLinkWrapper([href |-> href])
    /\ UNCHANGED <<href, hostMounted, callback, delay, savedCallback, intervalId, timers,
                   nextTimerId, renders, ticks, lastTick, delayCommits>>
    /\ UNCHANGED themeVars
    /\ UNCHANGED blogVars

NextLink == RenderLink

SpecLink == InitLink /\ [][NextLink]_vars

\* ---- chameleon-text.mdx: useInterval ----------------------------------------
MaxRenders == 4
MaxTicks == 2
Callbacks == {"cb1", "cb2", "cb3"}
Delays == {"null", "1000", "5000"}

intervalVars == <<hostMounted, callback, delay, savedCallback, intervalId, timers,
                  nextTimerId, renders, ticks, lastTick, delayCommits>>

\* window.setInterval / clearInterval on the set of live timers. `scope` is
\* the callback argument of the render whose effect created the handler.
setInterval(ts, id, d, cb) == ts \cup {[id |-> id, delay |-> d, scope |-> cb]}

clearInterval(ts, id) == {t \in ts : t.id # id}

\* useEffect(() => { savedCallback.current = callback }, [callback])
callbackEffect(saved, prev, cb) == IF prev # cb THEN cb ELSE saved

\* The cleanup the timer effect returned: () => clearInterval(intervalId),
\* or none (id 0) when the effect returned undefined.
timerCleanup_Missing(ts, id) == ts

timerCleanup(ts, id) == IF id = 0 THEN ts ELSE clearInterval(ts, id)

\* The body of the second effect.
timerEffect(ts, d, cb, id) ==
    IF d # "null"
    THEN [timers |-> setInterval(ts, id, d, cb), intervalId |-> id, next |-> id + 1]
    ELSE [timers |-> ts, intervalId |-> 0, next |-> id]

\* handler = (...args) => savedCallback.current(...args): what a tick invokes.
handler_Captured(saved, scope) == scope

handler(saved, scope) == saved

InitInterval ==
    /\ NoInterval
    /\ NoLink
    /\ NoTheme
    /\ NoBuild

\* The first render of the host and the effects of its commit, in order.
MountHost(cb, d) ==
    /\ hostMounted = "no"
    /\ hostMounted' = "yes"
    /\ callback' = cb
    /\ delay' = d
    /\ savedCallback' = callbackEffect(savedCallback, callback, cb)
    /\ LET r == timerEffect(timers, d, cb, nextTimerId)
       IN  /\ timers' = r.timers
           /\ intervalId' = r.intervalId
           /\ nextTimerId' = r.next
    /\ renders' = renders + 1
    /\ delayCommits' = IF d # "null" THEN delayCommits + 1 ELSE delayCommits
    /\ UNCHANGED <<ticks, lastTick, href, link>>
    /\ UNCHANGED themeVars
    /\ UNCHANGED blogVars

\* A later render and the effects of its commit: the cleanups of the effects
\* whose dependencies changed, then those effects in order.
RerenderHost(cb, d) ==
    /\ hostMounted = "yes"
    /\ renders < MaxRenders
    /\ callback' = cb
    /\ delay' = d
    /\ savedCallback' = callbackEffect(savedCallback, callback, cb)
    /\ IF d # delay
       THEN LET r == timerEffect(timerCleanup(timers, intervalId), d, cb, nextTimerId)
            IN  /\ timers' = r.timers
                /\ intervalId' = r.intervalId
                /\ nextTimerId' = r.next
       ELSE UNCHANGED <<timers, intervalId, nextTimerId>>
    /\ renders' = renders + 1
    /\ delayCommits' = IF d # delay /\ d # "null" THEN delayCommits + 1 ELSE delayCommits
    /\ UNCHANGED <<hostMounted, ticks, lastTick, href, link>>
    /\ UNCHANGED themeVars
    /\ UNCHANGED blogVars

\* A live timer fires and calls its handler.
Tick ==
    /\ ticks < MaxTicks
    /\ \E t \in timers :
          lastTick' = [invoked |-> handler(savedCallback, t.scope), rendered |-> callback,
                       captured |-> t.scope, timer |-> t.id, host |-> hostMounted]
    /\ ticks' = ticks + 1
    /\ UNCHANGED <<hostMounted, callback, delay, savedCallback, intervalId, timers,
                   nextTimerId, renders, delayCommits, href, link>>
    /\ UNCHANGED themeVars
    /\ UNCHANGED blogVars

\* The host unmounts: React runs the cleanup of the timer effect.
UnmountHost ==
    /\ hostMounted = "yes"
    /\ hostMounted' = "gone"
    /\ timers' = timerCleanup(timers, intervalId)
    /\ intervalId' = 0
    /\ UNCHANGED <<callback, delay, savedCallback, nextTimerId, renders, ticks, lastTick,
                   delayCommits, href, link>>
    /\ UNCHANGED themeVars
    /\ UNCHANGED blogVars

NextInterval ==
    \/ \E cb \in Callbacks, d \in Delays : MountHost(cb, d)
    \/ \E cb \in Callbacks, d \in Delays : RerenderHost(cb, d)
    \/ Tick
    \/ UnmountHost

SpecInterval == InitInterval /\ [][NextInterval]_vars

\* ---- claims ----------------------------------------------------------

\* C1: whenever <Main /> has been painted, the blocking script has already
\* run to completion: --initial-color-mode holds the resolved mode and, until
\* IndexPage has a defined darkTheme, data-theme is "dark" exactly when the
\* resolved mode is dark.
C1_ThemeAppliedBeforePaint ==
    painted =>
        /\ ScriptDone
        /\ initialColorMode = colorMode
        /\ (darkTheme = "undefined" => dataTheme = AttrOf(colorMode))

C1_Witness ==
    /\ painted /\ ~mounted
    /\ colorMode = "dark" /\ initialColorMode = "dark" /\ dataTheme = "dark"

\* C2: when the store holds light or dark, the script resolves to that value
\* whatever the system signal is, and the media query is not consulted.
C2_ExplicitBeatsSystem ==
    (ScriptDone /\ preference \in Tokens) =>
        (colorMode = preference /\ matches = Unqueried)

C2_Witness ==
    /\ ScriptDone /\ pos = 2 /\ loads = 0
    /\ preference = "dark" /\ systemSignal = "false" /\ colorMode = "dark"

\* C3: the value the script resolves is always light or dark.
C3_ResolveReturnsToken == ScriptDone => colorMode \in Tokens

\* C4: a stored value that is not light or dark is ignored: the script then
\* consults the media query and resolves dark iff it matches, else light.
C4_OnlyValidTokensUsed ==
    (ScriptDone /\ preference \notin Tokens) =>
        /\ matches # Unqueried
        /\ colorMode = (IF matches = "true" THEN "dark" ELSE "light")

\* C5: with no stored preference and a boolean answer from the media query,
\* the script resolves dark if and only if the query matches, else light.
C5_SystemSignalDecides ==
    (ScriptDone /\ preference = Null /\ matches \in {"true", "false"}) =>
        /\ colorMode \in Tokens
        /\ (colorMode = "dark" <=> matches = "true")

C5_Witness ==
    /\ ScriptDone /\ preference = Null /\ matches = "true" /\ colorMode = "dark"

\* C6: with no stored preference and no boolean answer from the media query,
\* the script resolves the default, light.
C6_DefaultIsLight ==
    (ScriptDone /\ preference = Null /\ matches \notin {"true", "false"}) =>
        colorMode = "light"

C6_Witness ==
    /\ ScriptDone /\ preference = Null /\ matches = "undefined"
    /\ colorMode = "light"

\* C7: once a toggle to x has completed (no update or effect pending), the
\* store holds x under "theme", every other key is as it was at page load,
\* and data-theme is "dark" for dark and absent for light.
C7_ToggleWritesStoreAndAttribute ==
    (Quiescent /\ requested # None) =>
        /\ localStorage["theme"] = requested
        /\ \A k \in Keys \ {"theme"} : localStorage[k] = loadStore[k]
        /\ dataTheme = AttrOf(requested)

C7_Witness ==
    /\ Quiescent /\ requested = "light" /\ loadStore["theme"] = "dark"
    /\ localStorage["theme"] = "light" /\ dataTheme = Null

\* C8: on a page load that follows the user's last toggle to x, and before
\* any toggle on that load, the script resolves x whatever the system signal.
C8_ReloadResolvesChoice ==
    (ScriptDone /\ requested = None /\ chosen # None) => colorMode = chosen

C8_Witness ==
    /\ ScriptDone /\ pos = 2 /\ requested = None /\ chosen = "light"
    /\ systemSignal = "true" /\ colorMode = "light"

\* C9: when a toggle to x directly follows a toggle to the same x, then once
\* it has completed the store, data-theme and darkTheme are what they were
\* when it began.
C9_ToggleIdempotent ==
    (Quiescent /\ repeated) => <<localStorage, dataTheme, darkTheme>> = snapshot

C9_Witness ==
    /\ Quiescent /\ repeated /\ requested = "dark" /\ darkTheme = "true"
    /\ toggles >= 2

\* C10: on a page load on which the user has not toggled, the store is what
\* it was when the load began.
C10_LoadLeavesStoreAlone == (requested = None) => localStorage = loadStore

\* C11: when the store cannot be read or the media query throws, the
\* blocking script still ends without an uncaught error, and with no tier able
\* to answer it resolves the default, light.
C11_ResolveNeverThrows ==
    ScriptRan =>
        /\ ~scriptError
        /\ (storeState = "blocked" /\ systemSignal \in {"throws", "undefined"})
              => colorMode = "light"

\* C12: when writing the store fails, a completed toggle to x has raised no
\* error into React and data-theme reflects x.
C12_ToggleSurvivesWriteFailure ==
    (requested # None /\ storeState # "ok" /\ Idle) =>
        (~pageError /\ dataTheme = AttrOf(requested))

\* C13: loaded with a store whose "theme" is absent, light or dark, the
\* store's "theme" is absent, light or dark in every reachable state.
C13_StoreHoldsOnlyTokens == localStorage["theme"] \in {Null} \cup Tokens

C13_Witness ==
    /\ Quiescent /\ toggles >= 1 /\ loadStore["theme"] = Null
    /\ localStorage["theme"] = "light"

\* C14: whenever the checkbox is rendered, its checked state is the mode the
\* script resolved (before any toggle on this load) or the mode last toggled
\* to (once that update is rendered), and once the effects have run
\* data-theme agrees with it.
C14_ToggleShowsAppliedTheme ==
    ToggleRendered =>
        /\ (requested = None => (darkTheme = "true" <=> colorMode = "dark"))
        /\ ((requested # None /\ update = None) => TokenOf(darkTheme) = requested)
        /\ (Idle => dataTheme = AttrOf(TokenOf(darkTheme)))

C14_Witness ==
    /\ ToggleRendered /\ Idle /\ requested = None
    /\ darkTheme = "true" /\ colorMode = "dark" /\ dataTheme = "dark"

\* C15: after a toggle to x, when IndexPage has been unmounted and mounted
\* again in the same document and its effects have run, the store and
\* data-theme still reflect x.
C15_RemountKeepsChoice ==
    (Quiescent /\ requested # None /\ remounted) =>
        /\ localStorage["theme"] = requested
        /\ dataTheme = AttrOf(requested)

\* C16: when the blocking script has finished and IndexPage is not mounted
\* yet, --initial-color-mode is the resolved value and data-theme is "dark"
\* if that value is dark and absent otherwise.
C16_ScriptAppliesResolvedMode ==
    (ScriptDone /\ ~mounted /\ ~pageError) =>
        /\ initialColorMode = colorMode
        /\ dataTheme = AttrOf(colorMode)

C16_Witness ==
    /\ ScriptDone /\ ~mounted /\ colorMode = "batman"
    /\ initialColorMode = "batman" /\ dataTheme = Null

C18_SavedPreferenceKept ==
    (requested = None /\ loadStore["theme"] \in Tokens) =>
        localStorage["theme"] = loadStore["theme"]

\* C19: getStaticPaths returns, in order, one path per .mdx file of the
\* directory, whose slug is that file's name without ".mdx", with fallback
\* false; and getStaticProps for an enumerated slug returns a defined post
\* with that slug together with the markup of that slug's file.
MdxFiles == SelectSeq(dir, LAMBDA f : f.name[Len(f.name)] = ".mdx")

C20_PostsPerMdxFile ==
    postsResult.called =>
        IF \E i \in 1..Len(MdxFiles) : ~MdxFiles[i].meta.has
        THEN /\ postsResult.threw
             /\ postsResult.posts = <<>>
             /\ \E i \in 1..Len(MdxFiles) :
                   /\ MdxFiles[i].name = postsResult.file
                   /\ ~MdxFiles[i].meta.has
                   /\ \A j \in 1..(i - 1) : MdxFiles[j].meta.has
        ELSE /\ ~postsResult.threw
             /\ Len(postsResult.posts) = Len(MdxFiles)
             /\ \A i \in 1..Len(MdxFiles) :
                   {p[2] \o <<".mdx">> : p \in {q \in postsResult.posts[i] : q[1] = "slug"}}
                       = {MdxFiles[i].name}
             /\ \A i, j \in 1..Len(postsResult.posts) :
                   i # j => postsResult.posts[i] # postsResult.posts[j]

C20_Witness ==
    /\ postsResult.called /\ ~postsResult.threw /\ Len(postsResult.posts) = 2
    /\ \E i \in 1..Len(MdxFiles) : <<"slug", <<"b">>>> \in MdxFiles[i].meta.fields
    /\ Len(dir) = 3

\* C21: MDXLinkWrapper decides by the first character of href alone: the link
\* is rendered without target and rel exactly when href begins with "/" or
\* "#"; every other href, the empty one included, gets target="_blank" and
\* rel="noopener noreferrer"; target="_blank" never comes without that rel.
C21_LinkClassifiedByFirstChar ==
    link.rendered =>
        LET internal == Len(href) > 0 /\ href[1] \in {"/", "#"}
        IN  /\ link.href = href
            /\ internal => link.target = Null /\ link.rel = Null
            /\ ~internal => link.target = "_blank" /\ link.rel = "noopener noreferrer"
            /\ link.target = "_blank" => link.rel = "noopener noreferrer"

C21_Witness ==
    /\ link.rendered
    /\ href = <<>>
    /\ link.target = "_blank"
    /\ link.rel = "noopener noreferrer"

====
